---- MODULE Spec2Model ----
(***************************************************************************)
(* ROV2CZML: conversion of ROV telemetry rows into a CZML packet list.     *)
(*                                                                         *)
(* Two converters are modelled, selected by the variable `variant`:        *)
(*   "utm" : build_czml            of src/main_czml-writer.py              *)
(*   "geo" : create_czml_document  of src/main.py                          *)
(*                                                                         *)
(* Text is modelled as it is in the program: a string is a sequence of     *)
(* one-character strings, so that parsing (strptime), formatting           *)
(* (strftime, f-strings) and str.replace / str.strip are computed and not  *)
(* assumed.  An optional value (a CSV cell that parse_csv turned into      *)
(* None, or a missing key) is None == <<>>, a present value v is <<v>>.    *)
(*                                                                         *)
(* Line 545 of src/main_czml-writer.py is an f-string with an empty        *)
(* expression, which CPython rejects when it compiles the file.  The       *)
(* statements of build_czml are modelled as they are written, with the     *)
(* "Comments" entry of the sensor packet left out.                         *)
(***************************************************************************)
EXTENDS Integers, Sequences, FiniteSets, TLC

VARIABLES
    variant,          \* which converter runs: "utm" or "geo"
    data,             \* the parsed rows handed to the converter
    pc,               \* position in the converter / its caller
    i,                \* loop index of the running for-loop (0-based, as enumerate)
    start_time,       \* data[0]["Timestamp"]
    end_time,         \* data[-1]["Timestamp"]
    position_list,    \* position samples, one entry per sample
    orientation_list, \* orientation samples, one entry per sample
    czml,             \* the packet list under construction / returned
    result,           \* "pending", "list", "None" (returned None) or "raised"
    transformer,      \* the projection initialize_transformers chose (build_czml)
    log,              \* diagnostics printed so far
    previous,         \* what an earlier run on the same input returned, if any
    call,             \* the helper function applied on its own, with its arguments
    ret               \* what that function returned

vars == <<variant, data, pc, i, start_time, end_time, position_list,
          orientation_list, czml, result, transformer, log, previous, call, ret>>

----------------------------------------------------------------------------
(* Optional values *)

None == <<>>
Some(x) == <<x>>
IsNone(f) == f = <<>>
Val(f) == f[1]

\* Python truthiness of an optional string: neither None nor ""
Truthy(f) == f # <<>> /\ f[1] # <<>>

----------------------------------------------------------------------------
(* Text *)

DigitChars == <<"0", "1", "2", "3", "4", "5", "6", "7", "8", "9">>
Digits == {DigitChars[k] : k \in 1..10}
DigitVal(c) == (CHOOSE k \in 1..10 : DigitChars[k] = c) - 1

\* zero-padded decimal fields, as strftime's %Y/%m/%d/%H/%M/%S write them
Pad2(n) == <<DigitChars[((n \div 10) % 10) + 1], DigitChars[(n % 10) + 1]>>
Pad4(n) == Pad2(n \div 100) \o Pad2(n % 100)

\* str(i) of a non-negative integer, as an f-string writes {i}
RECURSIVE IntToStr(_)
IntToStr(n) ==
    IF n < 10 THEN <<DigitChars[n + 1]>>
    ELSE IntToStr(n \div 10) \o <<DigitChars[(n % 10) + 1]>>

\* value of a sequence of digits
RECURSIVE ToInt(_)
ToInt(s) ==
    IF s = <<>> THEN 0
    ELSE 10 * ToInt(SubSeq(s, 1, Len(s) - 1)) + DigitVal(s[Len(s)])

\* length of the run of digits of s that starts at position p
RECURSIVE DigitRun(_, _)
DigitRun(s, p) ==
    IF p <= Len(s) /\ s[p] \in Digits THEN 1 + DigitRun(s, p + 1) ELSE 0

\* str.strip(): leading and trailing whitespace removed
RECURSIVE LStrip(_)
LStrip(s) == IF s # <<>> /\ Head(s) = " " THEN LStrip(Tail(s)) ELSE s
RECURSIVE RStrip(_)
RStrip(s) ==
    IF s # <<>> /\ s[Len(s)] = " " THEN RStrip(SubSeq(s, 1, Len(s) - 1)) ELSE s
Strip(s) == RStrip(LStrip(s))

----------------------------------------------------------------------------
(* Time: datetime.strptime / strftime with "%Y-%m-%dT%H:%M:%SZ"            *)

\* days since 1970-01-01 of a proleptic Gregorian date
DaysFromCivil(y0, m, d) ==
    LET y   == IF m <= 2 THEN y0 - 1 ELSE y0
        era == y \div 400
        yoe == y - era * 400
        mp  == IF m > 2 THEN m - 3 ELSE m + 9
        doy == (153 * mp + 2) \div 5 + d - 1
        doe == yoe * 365 + yoe \div 4 - yoe \div 100 + doy
    IN  era * 146097 + doe - 719468

\* the date <<y, m, d>> of a day count
CivilFromDays(z0) ==
    LET z   == z0 + 719468
        era == z \div 146097
        doe == z - era * 146097
        yoe == (doe - doe \div 1460 + doe \div 36524 - doe \div 146096) \div 365
        doy == doe - (365 * yoe + yoe \div 4 - yoe \div 100)
        mp  == (5 * doy + 2) \div 153
        d   == doy - (153 * mp + 2) \div 5 + 1
        m   == IF mp < 10 THEN mp + 3 ELSE mp - 9
        y   == yoe + era * 400
    IN  <<IF m <= 2 THEN y + 1 ELSE y, m, d>>

\* the fields of the format: digits (min..max of them) and the literal after them
TimeFormat ==
    << [min |-> 4, max |-> 4, sep |-> "-"],
       [min |-> 1, max |-> 2, sep |-> "-"],
       [min |-> 1, max |-> 2, sep |-> "T"],
       [min |-> 1, max |-> 2, sep |-> ":"],
       [min |-> 1, max |-> 2, sep |-> ":"],
       [min |-> 1, max |-> 2, sep |-> "Z"] >>

\* the numeric fields of s read from position p on, or <<>> when s does not match
RECURSIVE ParseFields(_, _, _, _)
ParseFields(s, p, k, acc) ==
    IF k > Len(TimeFormat)
    THEN IF p = Len(s) + 1 THEN acc ELSE <<>>
    ELSE LET n == DigitRun(s, p)
         IN  IF \/ n < TimeFormat[k].min
                \/ n > TimeFormat[k].max
                \/ p + n > Len(s)
                \/ s[p + n] # TimeFormat[k].sep
             THEN <<>>
             ELSE ParseFields(s, p + n + 1, k + 1,
                              Append(acc, ToInt(SubSeq(s, p, p + n - 1))))

\* datetime.strptime(s, fmt): Some(seconds since 1970) or None for ValueError
Strptime(s) ==
    LET f == ParseFields(s, 1, 1, <<>>)
    IN  IF f = <<>> THEN None
        ELSE IF /\ f[1] >= 1
                /\ f[2] \in 1..12
                /\ f[3] >= 1
                /\ CivilFromDays(DaysFromCivil(f[1], f[2], f[3])) = <<f[1], f[2], f[3]>>
                /\ f[4] \in 0..23
                /\ f[5] \in 0..59
                /\ f[6] \in 0..59
             THEN Some(DaysFromCivil(f[1], f[2], f[3]) * 86400
                       + f[4] * 3600 + f[5] * 60 + f[6])
             ELSE None

\* dt.strftime(fmt) of the instant t (seconds since 1970)
Strftime(t) ==
    LET ymd == CivilFromDays(t \div 86400)
        sod == t % 86400
    IN  Pad4(ymd[1]) \o <<"-">> \o Pad2(ymd[2]) \o <<"-">> \o Pad2(ymd[3])
        \o <<"T">> \o Pad2(sod \div 3600) \o <<":">> \o Pad2((sod \div 60) % 60)
        \o <<":">> \o Pad2(sod % 60) \o <<"Z">>

\* seconds_between: the difference in seconds, 0 when either string fails to parse
seconds_between(start_time_str, current_time_str) ==
    LET start   == IF IsNone(start_time_str) THEN None ELSE Strptime(Val(start_time_str))
        current == IF IsNone(current_time_str) THEN None ELSE Strptime(Val(current_time_str))
    IN  IF IsNone(start) \/ IsNone(current) THEN 0 ELSE Val(current) - Val(start)

----------------------------------------------------------------------------
(* Floats.  The angles the inputs use are whole degrees that are multiples *)
(* of 90, so every sine, cosine, product and square root the converters    *)
(* take is a number (a + b * sqrt 2) / d with integers a, b and d > 0.  A  *)
(* float is the triple <<a, b, d>> in lowest terms, computed exactly, or   *)
(* NaN, which float("nan") of parse_csv lets in and every operation keeps. *)
(* An operation that raises in Python gives Raised.                        *)

NaN == <<0, 0, 0>>
Raised == <<>>
IsNaN(x) == x[3] = 0

Abs(n) == IF n < 0 THEN -n ELSE n

RECURSIVE Gcd(_, _)
Gcd(m, n) == IF n = 0 THEN m ELSE Gcd(n, m % n)

\* (a + b * sqrt 2) / d in lowest terms, for d # 0
Float(a, b, d) ==
    LET g == Gcd(Gcd(Abs(a), Abs(b)), Abs(d))
        sgn == IF d < 0 THEN -1 ELSE 1
    IN  <<sgn * (a \div g), sgn * (b \div g), Abs(d) \div g>>

\* the float of a whole number
Whole(n) == <<n, 0, 1>>

FAdd(x, y) ==
    IF IsNaN(x) \/ IsNaN(y) THEN NaN
    ELSE Float(x[1] * y[3] + y[1] * x[3], x[2] * y[3] + y[2] * x[3], x[3] * y[3])

FNeg(x) == IF IsNaN(x) THEN NaN ELSE <<-x[1], -x[2], x[3]>>

FSub(x, y) == FAdd(x, FNeg(y))

FMul(x, y) ==
    IF IsNaN(x) \/ IsNaN(y) THEN NaN
    ELSE Float(x[1] * y[1] + 2 * x[2] * y[2], x[1] * y[2] + x[2] * y[1], x[3] * y[3])

\* x > 0; a comparison with NaN is false
FPositive(x) ==
    /\ ~IsNaN(x)
    /\ \/ x[1] > 0 /\ x[2] >= 0
       \/ x[1] >= 0 /\ x[2] > 0
       \/ x[1] > 0 /\ x[2] < 0 /\ x[1] * x[1] > 2 * x[2] * x[2]
       \/ x[1] < 0 /\ x[2] > 0 /\ 2 * x[2] * x[2] > x[1] * x[1]

FIsZero(x) == ~IsNaN(x) /\ x[1] = 0 /\ x[2] = 0

\* x > y
FGreater(x, y) == FPositive(FSub(x, y))

\* x / y for y # 0: x * (a - b * sqrt 2) * d / (a * a - 2 * b * b)
FDiv(x, y) ==
    IF IsNaN(x) \/ IsNaN(y) THEN NaN
    ELSE LET n == y[1] * y[1] - 2 * y[2] * y[2]
             r == FMul(x, <<y[1] * y[3], -(y[2] * y[3]), 1>>)
         IN  Float(r[1], r[2], r[3] * n)

\* the whole number whose square is n
IntRoot(n) == CHOOSE r \in 0..n : r * r = n

IsSquare(n) == \E r \in 0..n : r * r = n

\* math.sqrt of a rational p / d >= 0 whose root is rational or a rational
\* multiple of sqrt 2
FSqrt(x) ==
    IF IsNaN(x) THEN NaN
    ELSE IF IsSquare(x[1] * x[3]) THEN Float(IntRoot(x[1] * x[3]), 0, x[3])
    ELSE Float(0, IntRoot(2 * x[1] * x[3]), 2 * x[3])

\* math.cos(math.radians(deg)) and math.sin(math.radians(deg)) for a whole
\* number of degrees that is a multiple of 45
FCosDeg(deg) ==
    LET k == (deg \div 45) % 8
    IN  IF k \in {2, 6} THEN Whole(0)
        ELSE IF k = 0 THEN Whole(1)
        ELSE IF k = 4 THEN Whole(-1)
        ELSE IF k \in {1, 7} THEN <<0, 1, 2>>
        ELSE <<0, -1, 2>>

FSinDeg(deg) == FCosDeg(deg - 90)

----------------------------------------------------------------------------
(* Program constants *)

Stride == 5             \* `if i % 5 == 0`: a sensor label every 5th row
DisplaySeconds == 2     \* timedelta(seconds=2), get_event_duration(seconds=2)
LevelFlightRows == 20   \* `if i < 20`: rows forced to level flight (build_czml)
GeoidOffset == 30       \* depth - 30.0: mean sea level to ellipsoid (utm_to_cartesian)
ClockMultiplier == 10   \* "multiplier": 10 of the document packet's clock

----------------------------------------------------------------------------
(* Bounds of the model *)

MaxLen == 2          \* longest input of the varied family
MaxTime == 1         \* well-formed timestamps run over BaseStamp + 0..MaxTime seconds
LongLen == 12        \* length of the inputs of the long family
MaxIncomplete == 2   \* rows of a long input that lack a sensor field
MaxTail == 1         \* rows of a deep input after the level-flight rows
MaxQuarterTurns == 4 \* headings applied on their own run over 0, 90, ... 90 * MaxQuarterTurns
MaxLat == 90         \* latitudes given to get_utm_zone run over -MaxLat..MaxLat
MaxLon == 180        \* longitudes given to get_utm_zone run over -MaxLon..MaxLon
MaxAnchors == 3      \* rows given to initialize_transformers
MaxComponent == 1    \* quaternion components given to quaternion_multiply

----------------------------------------------------------------------------
(* Input rows: the dictionaries parse_csv returns.  A numeric column is a   *)
(* float or None; a text column is the cell's string ("" for an empty cell) *)
(* or None when the key is missing.  The angle columns Heading, Pitch and   *)
(* Roll hold floats as above; the other numeric columns hold whole numbers. *)

BaseStamp ==
    <<"2", "0", "2", "3", "-", "1", "2", "-", "3", "1", "T",
      "2", "3", ":", "5", "9", ":", "5", "8", "Z">>
GoodStamps == {Strftime(Val(Strptime(BaseStamp)) + t) : t \in 0..MaxTime}

\* accepted by strptime although the fields are not zero-padded; without
\* ":" and "-" both read 20231231_12345Z
LooseStampA ==
    <<"2", "0", "2", "3", "-", "1", "2", "-", "3", "1", "T",
      "1", ":", "2", "3", ":", "4", "5", "Z">>
LooseStampB ==
    <<"2", "0", "2", "3", "-", "1", "2", "-", "3", "1", "T",
      "1", "2", ":", "3", ":", "4", "5", "Z">>
BadStamp == <<"b", "a", "d">>

FREE_FORM == <<"F", "R", "E", "E", "_", "F", "O", "R", "M">>
HIGHLIGHT == <<"H", "I", "G", "H", "L", "I", "G", "H", "T">>
ImageName == <<"a", ".", "j", "p", "g">>

PoseFull ==
    [Latitude |-> Some(19), Longitude |-> Some(-156), UTM_X |-> Some(500000),
     UTM_Y |-> Some(2100000), Depth |-> Some(-1000), Heading |-> Some(Whole(90)),
     Pitch |-> Some(Whole(0)), Roll |-> Some(Whole(0))]
PoseNoDepth == [PoseFull EXCEPT !.Depth = None]
PoseNoHeading == [PoseFull EXCEPT !.Heading = None]
PoseNoEasting == [PoseFull EXCEPT !.UTM_X = None]

SensBoth == [O2_Concentration |-> Some(7), Temperature |-> Some(4)]
SensO2Only == [O2_Concentration |-> Some(7), Temperature |-> None]

Event(category, image) ==
    [event_value |-> Some(category), event_free_text |-> Some(<<"x">>),
     filename_2_value |-> Some(image)]
EvNone == Event(<<>>, <<>>)

\* one row; sensor_name is None when the CSV has no such column
Row(ts, pose, sens, ev, name) ==
    [Timestamp |-> ts,
     Latitude |-> pose.Latitude, Longitude |-> pose.Longitude,
     UTM_X |-> pose.UTM_X, UTM_Y |-> pose.UTM_Y, Depth |-> pose.Depth,
     Heading |-> pose.Heading, Pitch |-> pose.Pitch, Roll |-> pose.Roll,
     O2_Concentration |-> sens.O2_Concentration, Temperature |-> sens.Temperature,
     event_value |-> ev.event_value, event_free_text |-> ev.event_free_text,
     filename_2_value |-> ev.filename_2_value,
     sensor_name |-> name]

\* the rows the varied inputs are made of
Rows ==
    \* well-formed timestamps; complete and incomplete poses; sensor and event data
    {Row(Some(ts), PoseFull, SensBoth, Event(FREE_FORM, ImageName), None) :
        ts \in GoodStamps}
    \cup {Row(Some(BaseStamp), PoseFull, se[1], se[2], None) :
            se \in {<<SensBoth, EvNone>>, <<SensO2Only, Event(FREE_FORM, ImageName)>>}}
    \cup {Row(Some(BaseStamp), PoseNoDepth, SensBoth, Event(FREE_FORM, ImageName), None)}
    \* a missing key, an empty cell and an unparsable timestamp
    \cup {Row(ts, PoseFull, SensBoth, Event(FREE_FORM, ImageName), None) :
            ts \in {None, Some(<<>>), Some(BadStamp)}}
    \* event categories and image references
    \cup {Row(Some(BaseStamp), PoseFull, se[1], se[2], None) :
            se \in {<<SensBoth, Event(FREE_FORM, <<>>)>>,
                    <<SensO2Only, Event(<<" ">>, ImageName)>>,
                    <<SensO2Only, Event(<<" ">> \o FREE_FORM, ImageName)>>,
                    <<SensO2Only, Event(HIGHLIGHT, ImageName)>>}}
    \* poses that only one of the converters takes as complete
    \cup {Row(Some(BaseStamp), pose, SensBoth, EvNone, None) :
            pose \in {PoseNoHeading, PoseNoEasting}}
    \* timestamps that are not zero-padded
    \cup {Row(Some(ts), PoseFull, SensO2Only, Event(FREE_FORM, ImageName), None) :
            ts \in {LooseStampA, LooseStampB}}
    \* a CSV with a sensor_name column
    \cup {Row(Some(BaseStamp), PoseFull, SensBoth, EvNone, Some(<<"E", "v", "e", "n", "t">>))}

VariedInputs == UNION {[1..n -> Rows] : n \in 0..MaxLen}

\* the long inputs: LongLen rows, all complete but for at most MaxIncomplete
\* rows that lack the temperature
LongRow(complete) ==
    Row(Some(BaseStamp), PoseFull, IF complete THEN SensBoth ELSE SensO2Only, EvNone, None)
LongInputs ==
    {[k \in 1..LongLen |-> LongRow((k - 1) \notin inc)] :
        inc \in {s \in SUBSET (0..(LongLen - 1)) : Cardinality(s) <= MaxIncomplete}}

\* the angles and frames of the rows that follow the level-flight rows
Attitude(heading, pitch, roll) ==
    [PoseFull EXCEPT !.Heading = heading, !.Pitch = pitch, !.Roll = roll]
TailPoses ==
    {Attitude(Some(Whole(h)), Some(Whole(0)), Some(Whole(0))) : h \in {0, 360}}
    \cup {Attitude(Some(Whole(180)), Some(Whole(90)), Some(Whole(0))),
          Attitude(Some(Whole(0)), Some(Whole(0)), Some(Whole(90))),
          \* an empty pitch cell, an empty heading cell, a heading cell "nan"
          Attitude(Some(Whole(90)), None, Some(Whole(0))),
          Attitude(None, Some(Whole(0)), Some(Whole(0))),
          Attitude(Some(NaN), Some(Whole(0)), Some(Whole(0))),
          \* another place
          [PoseFull EXCEPT !.UTM_X = Some(0), !.Heading = Some(Whole(0))]}

\* the deep inputs: LevelFlightRows complete rows, then up to MaxTail rows of
\* varied attitude
DeepInputs ==
    UNION {{[k \in 1..(LevelFlightRows + n) |->
               IF k <= LevelFlightRows THEN LongRow(TRUE)
               ELSE Row(Some(BaseStamp), tail[k - LevelFlightRows], SensBoth, EvNone, None)] :
            tail \in [1..n -> TailPoses]} : n \in 1..MaxTail}

\* the level inputs: one complete row, at index 0, of varied attitude
LevelInputs ==
    {<<Row(Some(BaseStamp), pose, SensBoth, EvNone, None)>> : pose \in TailPoses}

Inputs == VariedInputs \cup LongInputs \cup DeepInputs \cup LevelInputs

----------------------------------------------------------------------------
(* Packets.  Every packet is a record of the same shape:                    *)
(*   id, parent, availability  as the program writes them;                  *)
(*   body    the remaining properties of the packet;                        *)
(*   kind    which statement built it: "document", "entity", "sensor",      *)
(*           "event";                                                       *)
(*   row     the index of the row it was built from (-1: from no row).      *)
(* kind and row are bookkeeping of the model, not part of the output.       *)

DocumentId == <<"d", "o", "c", "u", "m", "e", "n", "t">>
HerculesId == <<"H", "e", "r", "c", "u", "l", "e", "s">>
EventPrefix == <<"E", "v", "e", "n", "t">>
DefaultSensorName == <<"S", "e", "n", "s", "o", "r">>

Packet(kind, id, parent, availability, row, body) ==
    [kind |-> kind, id |-> id, parent |-> parent, availability |-> availability,
     row |-> row, body |-> body]

\* an availability "start/stop"; both ends as the program formats them
Interval(start, stop) == Some([start |-> start, stop |-> stop])

\* SafeTime cut after the date
SafeTimeDateOnly(timestamp) ==
    LET kept == SelectSeq(timestamp, LAMBDA c : c \notin {":", "-"})
    IN  SubSeq(kept, 1, 8)

\* timestamp.replace(":", "").replace("-", "").replace("T", "_")
SafeTime(timestamp) ==
    LET kept == SelectSeq(timestamp, LAMBDA c : c \notin {":", "-"})
    IN  [k \in 1..Len(kept) |-> IF kept[k] = "T" THEN "_" ELSE kept[k]]

\* SensorId without the row index
SensorIdNoIndex(sensor_name, n) == sensor_name

\* f"{sensor_name}_{i}"
SensorId(sensor_name, n) == sensor_name \o <<"_">> \o IntToStr(n)

\* f"Event_{event_type}_{safe_time}"
EventId(event_type, timestamp) ==
    EventPrefix \o <<"_">> \o event_type \o <<"_">> \o SafeTime(timestamp)

\* colour and scale of an event billboard by category
EventStyle(event_type) ==
    IF event_type = FREE_FORM THEN [rgba |-> <<0, 100, 0, 179>>, scale |-> 5]
    ELSE IF event_type = HIGHLIGHT THEN [rgba |-> <<184, 134, 11, 179>>, scale |-> 6]
    ELSE [rgba |-> <<255, 255, 255, 179>>, scale |-> 5]   \* scale in tenths

\* the document packet: the clock over the series' time bounds
DocumentPacket(start, stop) ==
    Packet("document", DocumentId, None, None, -1,
           [clock |-> [interval |-> [start |-> start, stop |-> stop],
                       currentTime |-> start, multiplier |-> ClockMultiplier,
                       range |-> "LOOP_STOP"]])

\* the primary entity; the orientation property is absent (None) when no
\* orientation sample exists
HerculesPacket(start, stop, positions, orientations) ==
    Packet("entity", HerculesId, None, Interval(start, stop), -1,
           [position |-> [epoch |-> start, samples |-> positions],
            orientation |-> IF orientations = <<>> THEN None
                            ELSE Some([epoch |-> start, samples |-> orientations])])

----------------------------------------------------------------------------
(* Projection (src/main_czml-writer.py)                                     *)

\* get_utm_zone without the zone 32 exception
get_utm_zone_plain_norway(lat, lon) ==
    IF 72 <= lat /\ lat < 84 /\ 0 <= lon /\ lon < 9 THEN 31
    ELSE IF 72 <= lat /\ lat < 84 /\ 9 <= lon /\ lon < 21 THEN 33
    ELSE IF 72 <= lat /\ lat < 84 /\ 21 <= lon /\ lon < 33 THEN 35
    ELSE IF 72 <= lat /\ lat < 84 /\ 33 <= lon /\ lon < 42 THEN 37
    ELSE ((lon + 180) \div 6) + 1

get_utm_zone(lat, lon) ==
    IF 56 <= lat /\ lat < 64 /\ 3 <= lon /\ lon < 12 THEN 32
    ELSE IF 72 <= lat /\ lat < 84 /\ 0 <= lon /\ lon < 9 THEN 31
    ELSE IF 72 <= lat /\ lat < 84 /\ 9 <= lon /\ lon < 21 THEN 33
    ELSE IF 72 <= lat /\ lat < 84 /\ 21 <= lon /\ lon < 33 THEN 35
    ELSE IF 72 <= lat /\ lat < 84 /\ 33 <= lon /\ lon < 42 THEN 37
    ELSE ((lon + 180) \div 6) + 1

\* initialize_transformers reading the last row that has latitude and longitude
initialize_transformers_last_anchor(rows) ==
    LET valid == {k \in 1..Len(rows) :
                    ~IsNone(rows[k].Latitude) /\ ~IsNone(rows[k].Longitude)}
    IN  IF valid = {} THEN [zone |-> 4, hemisphere |-> "north", fallback |-> TRUE]
        ELSE LET k == CHOOSE k \in valid : \A j \in valid : k >= j
             IN  [zone |-> get_utm_zone(Val(rows[k].Latitude), Val(rows[k].Longitude)),
                  hemisphere |-> IF Val(rows[k].Latitude) >= 0 THEN "north" ELSE "south",
                  fallback |-> FALSE]

\* zone and hemisphere of the first row that has latitude and longitude,
\* zone 4 north when there is none
initialize_transformers(rows) ==
    LET valid == {k \in 1..Len(rows) :
                    ~IsNone(rows[k].Latitude) /\ ~IsNone(rows[k].Longitude)}
    IN  IF valid = {} THEN [zone |-> 4, hemisphere |-> "north", fallback |-> TRUE]
        ELSE LET k == CHOOSE k \in valid : \A j \in valid : k <= j
             IN  [zone |-> get_utm_zone(Val(rows[k].Latitude), Val(rows[k].Longitude)),
                  hemisphere |-> IF Val(rows[k].Latitude) >= 0 THEN "north" ELSE "south",
                  fallback |-> FALSE]

\* the ECEF position, kept symbolic: the projection's arguments, the depth
\* lowered by the geoid offset
utm_to_cartesian(utm_x, utm_y, depth, tr) ==
    [zone |-> tr.zone, hemisphere |-> tr.hemisphere, x |-> utm_x, y |-> utm_y,
     height |-> depth - GeoidOffset]

\* utm_to_geodetic_transformer.transform(utm_x, utm_y): longitude and
\* latitude in degrees.  pyproj is not part of the source; the grid points the
\* inputs use are placed at multiples of 90 degrees, where the sines and
\* cosines of enu_to_ecef_matrix are exact.
utm_to_geodetic(utm_x, utm_y, tr) ==
    <<90 * (utm_x \div 500000), 90 * ((utm_y \div 2100000) - 1)>>

\* the three lists enu_to_ecef_matrix builds from longitude and latitude
enu_to_ecef_matrix_at(lon_deg, lat_deg) ==
    LET sinLon == FSinDeg(lon_deg)
        cosLon == FCosDeg(lon_deg)
        sinLat == FSinDeg(lat_deg)
        cosLat == FCosDeg(lat_deg)
        col1 == <<FNeg(sinLon), FMul(FNeg(sinLat), cosLon), FMul(cosLat, cosLon)>>
        col2 == <<cosLon, FMul(FNeg(sinLat), sinLon), FMul(cosLat, sinLon)>>
        col3 == <<Whole(0), cosLat, sinLat>>
    IN  <<col1, col2, col3>>

enu_to_ecef_matrix(utm_x, utm_y, tr) ==
    LET ll == utm_to_geodetic(utm_x, utm_y, tr)
    IN  enu_to_ecef_matrix_at(ll[1], ll[2])

\* matrix_to_quaternion_branch whose second test compares m[0][0] with
\* m[1][1] only
matrix_to_quaternion_branch_first_pair(m) ==
    LET trace == FAdd(FAdd(m[1][1], m[2][2]), m[3][3])
    IN  IF FPositive(trace) THEN 1
        ELSE IF FGreater(m[1][1], m[2][2]) THEN 2
        ELSE IF FGreater(m[2][2], m[3][3]) THEN 3
        ELSE 4

\* the branch of matrix_to_quaternion the if / elif chain takes, 1 to 4
matrix_to_quaternion_branch(m) ==
    LET trace == FAdd(FAdd(m[1][1], m[2][2]), m[3][3])
    IN  IF FPositive(trace) THEN 1
        ELSE IF FGreater(m[1][1], m[2][2]) /\ FGreater(m[1][1], m[3][3]) THEN 2
        ELSE IF FGreater(m[2][2], m[3][3]) THEN 3
        ELSE 4

\* the argument of math.sqrt in the branch taken
matrix_to_quaternion_radicand_of(m, branch) ==
    IF branch = 1 THEN FAdd(FAdd(FAdd(m[1][1], m[2][2]), m[3][3]), Whole(1))
    ELSE IF branch = 2
    THEN FSub(FSub(FAdd(Whole(1), m[1][1]), m[2][2]), m[3][3])
    ELSE IF branch = 3
    THEN FSub(FSub(FAdd(Whole(1), m[2][2]), m[1][1]), m[3][3])
    ELSE FSub(FSub(FAdd(Whole(1), m[3][3]), m[1][1]), m[2][2])

matrix_to_quaternion_radicand(m) ==
    matrix_to_quaternion_radicand_of(m, matrix_to_quaternion_branch(m))

\* the four components the branch taken computes from s
matrix_to_quaternion_components(m, branch, s) ==
    IF branch = 1
    THEN <<FDiv(FSub(m[3][2], m[2][3]), s), FDiv(FSub(m[1][3], m[3][1]), s),
           FDiv(FSub(m[2][1], m[1][2]), s), FMul(<<1, 0, 4>>, s)>>
    ELSE IF branch = 2
    THEN <<FMul(<<1, 0, 4>>, s), FDiv(FAdd(m[1][2], m[2][1]), s),
           FDiv(FAdd(m[1][3], m[3][1]), s), FDiv(FSub(m[3][2], m[2][3]), s)>>
    ELSE IF branch = 3
    THEN <<FDiv(FAdd(m[1][2], m[2][1]), s), FMul(<<1, 0, 4>>, s),
           FDiv(FAdd(m[2][3], m[3][2]), s), FDiv(FSub(m[1][3], m[3][1]), s)>>
    ELSE <<FDiv(FAdd(m[1][3], m[3][1]), s), FDiv(FAdd(m[2][3], m[3][2]), s),
           FMul(<<1, 0, 4>>, s), FDiv(FSub(m[2][1], m[1][2]), s)>>

\* s = math.sqrt(radicand) * 2, then the components; Raised when math.sqrt
\* gets a negative number or a division is by zero
matrix_to_quaternion_from(m, branch, radicand) ==
    IF FPositive(FNeg(radicand)) \/ FIsZero(radicand) THEN Raised
    ELSE matrix_to_quaternion_components(m, branch, FMul(FSqrt(radicand), Whole(2)))

\* [qx, qy, qz, qw] of a 3 x 3 matrix indexed m[row][column]
matrix_to_quaternion(m) ==
    matrix_to_quaternion_from(m, matrix_to_quaternion_branch(m),
                              matrix_to_quaternion_radicand(m))

\* quaternion_multiply with its operands taken in the other order
quaternion_multiply_operands_swapped(q1, q2) ==
    LET x1 == q2[1]
        y1 == q2[2]
        z1 == q2[3]
        w1 == q2[4]
        x2 == q1[1]
        y2 == q1[2]
        z2 == q1[3]
        w2 == q1[4]
    IN  <<FSub(FAdd(FAdd(FMul(w1, x2), FMul(x1, w2)), FMul(y1, z2)), FMul(z1, y2)),
          FAdd(FAdd(FSub(FMul(w1, y2), FMul(x1, z2)), FMul(y1, w2)), FMul(z1, x2)),
          FAdd(FSub(FAdd(FMul(w1, z2), FMul(x1, y2)), FMul(y1, x2)), FMul(z1, w2)),
          FSub(FSub(FSub(FMul(w1, w2), FMul(x1, x2)), FMul(y1, y2)), FMul(z1, z2))>>

\* the product of two quaternions [x, y, z, w]
quaternion_multiply(q1, q2) ==
    LET x1 == q1[1]
        y1 == q1[2]
        z1 == q1[3]
        w1 == q1[4]
        x2 == q2[1]
        y2 == q2[2]
        z2 == q2[3]
        w2 == q2[4]
    IN  <<FSub(FAdd(FAdd(FMul(w1, x2), FMul(x1, w2)), FMul(y1, z2)), FMul(z1, y2)),
          FAdd(FAdd(FSub(FMul(w1, y2), FMul(x1, z2)), FMul(y1, w2)), FMul(z1, x2)),
          FAdd(FSub(FAdd(FMul(w1, z2), FMul(x1, y2)), FMul(y1, x2)), FMul(z1, w2)),
          FSub(FSub(FSub(FMul(w1, w2), FMul(x1, x2)), FMul(y1, y2)), FMul(z1, z2))>>

\* cosine and sine of half an angle given in whole degrees (a multiple of 90)
FCosHalf(deg) == IF IsNaN(deg) THEN NaN ELSE FCosDeg(deg[1] \div 2)
FSinHalf(deg) == IF IsNaN(deg) THEN NaN ELSE FSinDeg(deg[1] \div 2)

\* (90 - heading_deg) % 360.0
euler_to_quaternion_yaw(heading_deg) ==
    IF IsNaN(heading_deg) THEN NaN ELSE Whole((90 - heading_deg[1]) % 360)

\* [qx, qy, qz, qw] of heading, pitch and roll in degrees, ZYX order
euler_to_quaternion(heading_deg, pitch_deg, roll_deg) ==
    LET yaw == euler_to_quaternion_yaw(heading_deg)
        cy == FCosHalf(yaw)
        sy == FSinHalf(yaw)
        cp == FCosHalf(pitch_deg)
        sp == FSinHalf(pitch_deg)
        cr == FCosHalf(roll_deg)
        sr == FSinHalf(roll_deg)
        qw == FAdd(FMul(FMul(cr, cp), cy), FMul(FMul(sr, sp), sy))
        qx == FSub(FMul(FMul(sr, cp), cy), FMul(FMul(cr, sp), sy))
        qy == FAdd(FMul(FMul(cr, sp), cy), FMul(FMul(sr, cp), sy))
        qz == FSub(FMul(FMul(cr, cp), sy), FMul(FMul(sr, sp), cy))
    IN  <<qx, qy, qz, qw>>

\* the identity quaternion
get_precise_model_correction == <<Whole(0), Whole(0), Whole(0), Whole(1)>>

\* heading_to_quaternion of src/main.py: the rotation by 90 - heading about z
heading_to_quaternion(heading_deg) ==
    LET heading_deg_from_east ==
            IF IsNaN(heading_deg) THEN NaN ELSE Whole(90 - heading_deg[1])
    IN  <<Whole(0), Whole(0), FSinHalf(heading_deg_from_east),
          FCosHalf(heading_deg_from_east)>>

----------------------------------------------------------------------------
(* build_czml (src/main_czml-writer.py)                                     *)

\* the row enters the position array: all four keys are not None
\* (an empty-string timestamp is not None)
build_czml_pose_complete(row) ==
    /\ ~IsNone(row.Timestamp)
    /\ ~IsNone(row.UTM_X)
    /\ ~IsNone(row.UTM_Y)
    /\ ~IsNone(row.Depth)

\* one position sample: [offset_sec] + xyz
build_czml_position(row, n, start, tr) ==
    [row |-> n, offset |-> seconds_between(start, row.Timestamp),
     xyz |-> utm_to_cartesian(Val(row.UTM_X), Val(row.UTM_Y), Val(row.Depth), tr)]

\* build_czml_q_global_from with level flight forced, below LevelFlightRows,
\* only on the rows that lack an angle
build_czml_q_global_from_level_without_angles(q_transform, row, n) ==
    IF q_transform = Raised THEN Raised
    ELSE IF n < LevelFlightRows
            /\ (IsNone(row.Heading) \/ IsNone(row.Pitch) \/ IsNone(row.Roll))
    THEN quaternion_multiply(q_transform, <<Whole(0), Whole(0), Whole(0), Whole(1)>>)
    ELSE quaternion_multiply(
             q_transform,
             quaternion_multiply(
                 get_precise_model_correction,
                 euler_to_quaternion(Val(row.Heading), Val(row.Pitch), Val(row.Roll))))

\* q_global of one row from q_transform, the tangent frame's quaternion:
\* q_transform times the local quaternion.  Rows below LevelFlightRows point
\* north whatever their angles.
build_czml_q_global_from(q_transform, row, n) ==
    IF q_transform = Raised THEN Raised
    ELSE IF n < LevelFlightRows
    THEN quaternion_multiply(q_transform, <<Whole(0), Whole(0), Whole(0), Whole(1)>>)
    ELSE quaternion_multiply(
             q_transform,
             quaternion_multiply(
                 get_precise_model_correction,
                 euler_to_quaternion(Val(row.Heading), Val(row.Pitch), Val(row.Roll))))

build_czml_q_global(row, n, tr) ==
    build_czml_q_global_from(
        matrix_to_quaternion(enu_to_ecef_matrix(Val(row.UTM_X), Val(row.UTM_Y), tr)),
        row, n)

\* an exception in a row below LevelFlightRows is outside the try block
build_czml_pose_raises(row, n, tr) ==
    n < LevelFlightRows /\ build_czml_q_global(row, n, tr) = Raised

\* one orientation sample, [offset_sec] + q_global, or none when computing
\* q_global raised inside the try block
build_czml_orientation_sample(n, offset, q_global) ==
    IF q_global = Raised THEN <<>>
    ELSE <<[row |-> n, offset |-> offset, q |-> q_global]>>

\* the orientation samples of one row (none or one).  In the rows from
\* LevelFlightRows on, a missing heading gives no sample, and float(None) of
\* an empty pitch or roll raises and the except clause drops the sample.
build_czml_orientation(row, n, start, tr) ==
    IF n >= LevelFlightRows
       /\ (IsNone(row.Heading) \/ IsNone(row.Pitch) \/ IsNone(row.Roll))
    THEN <<>>
    ELSE build_czml_orientation_sample(n, seconds_between(start, row.Timestamp),
                                       build_czml_q_global(row, n, tr))

\* what the pose loop prints for one row
build_czml_pose_log(row, n, start) ==
    IF ~build_czml_pose_complete(row) THEN {}
    ELSE (IF IsNone(Strptime(Val(row.Timestamp))) \/ IsNone(start) \/ IsNone(Strptime(Val(start)))
          THEN {"Error parsing timestamps"} ELSE {})
         \cup (IF n >= LevelFlightRows /\ IsNone(row.Heading)
               THEN {"Warning: Missing heading data"} ELSE {})
         \cup (IF n >= LevelFlightRows /\ ~IsNone(row.Heading)
                  /\ (IsNone(row.Pitch) \/ IsNone(row.Roll))
               THEN {"Error processing orientation"} ELSE {})

\* build_czml_availability with a window one second longer
build_czml_availability_longer(timestamp, dt_start) ==
    Interval(Some(timestamp), Some(Strftime(dt_start + DisplaySeconds + 1)))

\* availability_str: the row's timestamp as written, and dt_start + 2 s formatted
build_czml_availability(timestamp, dt_start) ==
    Interval(Some(timestamp), Some(Strftime(dt_start + DisplaySeconds)))

\* build_czml_sensor_due on the rows next to the stride as well
build_czml_sensor_due_beside_stride(row, n) ==
    /\ n % Stride \in {0, 1}
    /\ ~IsNone(row.O2_Concentration)
    /\ ~IsNone(row.Temperature)

\* every 5th row whose two sensor fields are present gets a label
build_czml_sensor_due(row, n) ==
    /\ n % Stride = 0
    /\ ~IsNone(row.O2_Concentration)
    /\ ~IsNone(row.Temperature)

build_czml_sensor_packet(row, n, availability) ==
    LET sensor_name == IF IsNone(row.sensor_name) THEN DefaultSensorName
                       ELSE Val(row.sensor_name)
    IN  Packet("sensor", SensorId(sensor_name, n), Some(HerculesId), availability, n,
               [text |-> sensor_name, Oxygen |-> Val(row.O2_Concentration),
                Temperature |-> Val(row.Temperature)])

\* build_czml_event_due without the test of the image reference
build_czml_event_due_any_image(row) ==
    /\ Truthy(row.event_value)
    /\ Strip(Val(row.event_value)) # <<>>

\* a category that is not blank, and an image reference
build_czml_event_due(row) ==
    /\ Truthy(row.event_value)
    /\ Strip(Val(row.event_value)) # <<>>
    /\ Truthy(row.filename_2_value)

build_czml_event_packet(row, n, timestamp, availability) ==
    LET event_type == Strip(Val(row.event_value))
    IN  Packet("event", EventId(event_type, timestamp), Some(HerculesId), availability, n,
               [image |-> Val(row.filename_2_value), style |-> EventStyle(event_type),
                text |-> row.event_free_text])

\* build_czml_children that passes over the rows left out of the position array
build_czml_children_posed_only(row, n) ==
    IF ~Truthy(row.Timestamp) \/ ~build_czml_pose_complete(row)
    THEN [raised |-> FALSE, packets |-> <<>>]
    ELSE LET timestamp == Val(row.Timestamp)
             dt_start  == Strptime(timestamp)
         IN  IF IsNone(dt_start) THEN [raised |-> TRUE, packets |-> <<>>]
             ELSE LET availability == build_czml_availability(timestamp, Val(dt_start))
                  IN  [raised |-> FALSE,
                       packets |->
                         (IF build_czml_sensor_due(row, n)
                          THEN <<build_czml_sensor_packet(row, n, availability)>>
                          ELSE <<>>)
                         \o (IF build_czml_event_due(row)
                             THEN <<build_czml_event_packet(row, n, timestamp, availability)>>
                             ELSE <<>>)]

\* build_czml_children with the two appends in the other order
build_czml_children_event_first(row, n) ==
    IF ~Truthy(row.Timestamp) THEN [raised |-> FALSE, packets |-> <<>>]
    ELSE LET timestamp == Val(row.Timestamp)
             dt_start  == Strptime(timestamp)
         IN  IF IsNone(dt_start) THEN [raised |-> TRUE, packets |-> <<>>]
             ELSE LET availability == build_czml_availability(timestamp, Val(dt_start))
                  IN  [raised |-> FALSE,
                       packets |->
                         (IF build_czml_event_due(row)
                          THEN <<build_czml_event_packet(row, n, timestamp, availability)>>
                          ELSE <<>>)
                         \o (IF build_czml_sensor_due(row, n)
                             THEN <<build_czml_sensor_packet(row, n, availability)>>
                             ELSE <<>>)]

\* the packets one row adds, sensor label first; raised when strptime of the
\* row's timestamp raises ValueError, which nothing catches
build_czml_children(row, n) ==
    IF ~Truthy(row.Timestamp) THEN [raised |-> FALSE, packets |-> <<>>]
    ELSE LET timestamp == Val(row.Timestamp)
             dt_start  == Strptime(timestamp)
         IN  IF IsNone(dt_start) THEN [raised |-> TRUE, packets |-> <<>>]
             ELSE LET availability == build_czml_availability(timestamp, Val(dt_start))
                  IN  [raised |-> FALSE,
                       packets |->
                         (IF build_czml_sensor_due(row, n)
                          THEN <<build_czml_sensor_packet(row, n, availability)>>
                          ELSE <<>>)
                         \o (IF build_czml_event_due(row)
                             THEN <<build_czml_event_packet(row, n, timestamp, availability)>>
                             ELSE <<>>)]

\* BuildCzmlStart with the sample lists kept from one call to the next, as
\* lists created outside the function would be
BuildCzmlStartKeepingSamples ==
    /\ variant = "utm"
    /\ pc = "start"
    /\ IF data = <<>>
       THEN /\ czml' = <<>>
            /\ result' = "list"
            /\ pc' = "main"
            /\ UNCHANGED <<start_time, end_time, transformer, log>>
       ELSE /\ transformer' = initialize_transformers(data)
            /\ start_time' = data[1].Timestamp
            /\ end_time' = data[Len(data)].Timestamp
            /\ log' = log
            /\ pc' = "pose"
            /\ UNCHANGED <<czml, result>>
    /\ i' = 0
    /\ UNCHANGED <<variant, data, position_list, orientation_list, previous, call, ret>>

\* lines 335-369: the empty input, the transformers, the time bounds
BuildCzmlStart ==
    /\ variant = "utm"
    /\ pc = "start"
    /\ IF data = <<>>
       THEN /\ czml' = <<>>
            /\ result' = "list"
            /\ pc' = "main"
            /\ UNCHANGED <<start_time, end_time, transformer, log,
                           position_list, orientation_list>>
       ELSE /\ transformer' = initialize_transformers(data)
            /\ start_time' = data[1].Timestamp
            /\ end_time' = data[Len(data)].Timestamp
            /\ log' = log \cup (IF initialize_transformers(data).fallback
                                THEN {"Warning: No valid latitude/longitude found"}
                                ELSE {})
            /\ position_list' = <<>>
            /\ orientation_list' = <<>>
            /\ pc' = "pose"
            /\ UNCHANGED <<czml, result>>
    /\ i' = 0
    /\ UNCHANGED <<variant, data>>
    /\ UNCHANGED <<previous, call, ret>>

\* lines 371-473: one iteration of the pose loop
BuildCzmlPoseRow ==
    /\ variant = "utm"
    /\ pc = "pose"
    /\ i < Len(data)
    /\ LET row == data[i + 1]
       IN  /\ IF build_czml_pose_complete(row)
              THEN /\ position_list' =
                        Append(position_list, build_czml_position(row, i, start_time, transformer))
                   /\ IF build_czml_pose_raises(row, i, transformer)
                      THEN /\ pc' = "crashed"
                           /\ result' = "raised"
                           /\ UNCHANGED orientation_list
                      ELSE /\ orientation_list' =
                                orientation_list
                                \o build_czml_orientation(row, i, start_time, transformer)
                           /\ UNCHANGED <<pc, result>>
              ELSE UNCHANGED <<position_list, orientation_list, pc, result>>
           /\ log' = log \cup build_czml_pose_log(row, i, start_time)
    /\ i' = i + 1
    /\ UNCHANGED <<variant, data, start_time, end_time, czml, transformer>>
    /\ UNCHANGED <<previous, call, ret>>

\* BuildCzmlEntity without the return on an empty position list: the child
\* loop runs on the document packet alone
BuildCzmlEntityWithoutEarlyReturn ==
    /\ variant = "utm"
    /\ pc = "pose"
    /\ i = Len(data)
    /\ IF position_list = <<>>
       THEN /\ czml' = <<DocumentPacket(start_time, end_time)>>
            /\ pc' = "child"
            /\ log' = log \cup {"No valid position data found"}
            /\ UNCHANGED result
       ELSE /\ czml' = <<DocumentPacket(start_time, end_time),
                         HerculesPacket(start_time, end_time, position_list, orientation_list)>>
            /\ pc' = "child"
            /\ log' = log \cup (IF orientation_list = <<>>
                                THEN {"Warning: No heading data was found"} ELSE {})
            /\ UNCHANGED result
    /\ i' = 0
    /\ UNCHANGED <<variant, data, start_time, end_time, position_list,
                   orientation_list, transformer>>
    /\ UNCHANGED <<previous, call, ret>>

\* lines 475-517: the document-only return, or the list with the primary entity
BuildCzmlEntity ==
    /\ variant = "utm"
    /\ pc = "pose"
    /\ i = Len(data)
    /\ IF position_list = <<>>
       THEN /\ czml' = <<DocumentPacket(start_time, end_time)>>
            /\ result' = "list"
            /\ pc' = "main"
            /\ log' = log \cup {"No valid position data found"}
       ELSE /\ czml' = <<DocumentPacket(start_time, end_time),
                         HerculesPacket(start_time, end_time, position_list, orientation_list)>>
            /\ pc' = "child"
            /\ log' = log \cup (IF orientation_list = <<>>
                                THEN {"Warning: No heading data was found"} ELSE {})
            /\ UNCHANGED result
    /\ i' = 0
    /\ UNCHANGED <<variant, data, start_time, end_time, position_list,
                   orientation_list, transformer>>
    /\ UNCHANGED <<previous, call, ret>>

\* lines 520-603: one iteration of the sensor and event loop
BuildCzmlChildRow ==
    /\ variant = "utm"
    /\ pc = "child"
    /\ i < Len(data)
    /\ LET out == build_czml_children(data[i + 1], i)
       IN  IF out.raised
           THEN /\ result' = "raised"
                /\ pc' = "crashed"
                /\ UNCHANGED <<czml, i>>
           ELSE /\ czml' = czml \o out.packets
                /\ i' = i + 1
                /\ UNCHANGED <<result, pc>>
    /\ UNCHANGED <<variant, data, start_time, end_time, position_list,
                   orientation_list, transformer, log>>
    /\ UNCHANGED <<previous, call, ret>>

\* line 605: return czml
BuildCzmlReturn ==
    /\ variant = "utm"
    /\ pc = "child"
    /\ i = Len(data)
    /\ result' = "list"
    /\ pc' = "main"
    /\ UNCHANGED <<variant, data, i, start_time, end_time, position_list,
                   orientation_list, czml, transformer, log>>
    /\ UNCHANGED <<previous, call, ret>>

\* main, lines 651-661: an empty list is reported, any other list is written
BuildCzmlMain ==
    /\ variant = "utm"
    /\ pc = "main"
    /\ log' = log \cup (IF czml = <<>> THEN {"Failed to build CZML. Exiting."}
                        ELSE {"CZML file successfully created"})
    /\ pc' = "exit"
    /\ UNCHANGED <<variant, data, i, start_time, end_time, position_list,
                   orientation_list, czml, result, transformer>>
    /\ UNCHANGED <<previous, call, ret>>

----------------------------------------------------------------------------
(* create_czml_document (src/main.py).  The czml3 constructors (Packet,     *)
(* TimeInterval, Position, Document) are taken to store what they are given.*)

\* the row enters the position and orientation arrays
create_czml_document_pose_complete(row) ==
    /\ Truthy(row.Timestamp)
    /\ ~IsNone(row.Longitude)
    /\ ~IsNone(row.Latitude)
    /\ ~IsNone(row.Depth)
    /\ ~IsNone(row.Heading)

\* seconds_between of main.py catches ValueError only: strptime(None) is a
\* TypeError and leaves the converter
create_czml_document_pose_raises(row, start) ==
    create_czml_document_pose_complete(row) /\ IsNone(start)

\* [time_offset, lon, lat, depth]
create_czml_document_position(row, n, start) ==
    [row |-> n, offset |-> seconds_between(start, row.Timestamp),
     xyz |-> <<Val(row.Longitude), Val(row.Latitude), Val(row.Depth)>>]

\* [time_offset] + heading_to_quaternion(heading)
create_czml_document_orientation(row, n, start) ==
    [row |-> n, offset |-> seconds_between(start, row.Timestamp),
     q |-> heading_to_quaternion(Val(row.Heading))]

\* TimeInterval(start=timestamp, end=timestamp + 2 s)
create_czml_document_availability(timestamp, dt_start) ==
    Interval(Some(timestamp), Some(Strftime(dt_start + DisplaySeconds)))

\* the row is one of every 5th: its timestamp is parsed
create_czml_document_sensor_row(n) == n % Stride = 0

create_czml_document_sensor_due(row, n) ==
    /\ create_czml_document_sensor_row(n)
    /\ ~IsNone(row.O2_Concentration)
    /\ ~IsNone(row.Temperature)

create_czml_document_sensor_packet(row, n, availability) ==
    Packet("sensor", SensorId(DefaultSensorName, n), Some(HerculesId), availability, n,
           [text |-> DefaultSensorName, Oxygen |-> Val(row.O2_Concentration),
            Temperature |-> Val(row.Temperature)])

create_czml_document_event_due(row) ==
    /\ Truthy(row.event_value)
    /\ Strip(Val(row.event_value)) # <<>>
    /\ Truthy(row.filename_2_value)

\* the category enters the id and the style lookup as written, not stripped
create_czml_document_event_packet(row, n, timestamp, availability) ==
    LET event_type == Val(row.event_value)
    IN  Packet("event", EventId(event_type, timestamp), Some(HerculesId), availability, n,
               [image |-> Val(row.filename_2_value), style |-> EventStyle(event_type),
                text |-> row.event_free_text])

\* the packets one row adds; the timestamp is parsed only on a 5th row and
\* for an event that has its image
create_czml_document_children(row, n) ==
    IF ~Truthy(row.Timestamp) THEN [raised |-> FALSE, packets |-> <<>>]
    ELSE LET timestamp == Val(row.Timestamp)
             dt_start  == Strptime(timestamp)
             parses    == create_czml_document_sensor_row(n)
                          \/ create_czml_document_event_due(row)
         IN  IF parses /\ IsNone(dt_start) THEN [raised |-> TRUE, packets |-> <<>>]
             ELSE [raised |-> FALSE,
                   packets |->
                     (IF create_czml_document_sensor_due(row, n)
                      THEN <<create_czml_document_sensor_packet(row, n,
                                create_czml_document_availability(timestamp, Val(dt_start)))>>
                      ELSE <<>>)
                     \o (IF create_czml_document_event_due(row)
                         THEN <<create_czml_document_event_packet(row, n, timestamp,
                                   create_czml_document_availability(timestamp, Val(dt_start)))>>
                         ELSE <<>>)]

\* lines 169-194: the empty input, the time bounds
CreateDocumentStart ==
    /\ variant = "geo"
    /\ pc = "start"
    /\ IF data = <<>>
       THEN /\ result' = "None"
            /\ pc' = "main"
            /\ log' = log \cup {"No data to process. Exiting."}
            /\ UNCHANGED <<start_time, end_time, position_list, orientation_list>>
       ELSE /\ start_time' = data[1].Timestamp
            /\ end_time' = data[Len(data)].Timestamp
            /\ position_list' = <<>>
            /\ orientation_list' = <<>>
            /\ pc' = "pose"
            /\ UNCHANGED <<result, log>>
    /\ i' = 0
    /\ UNCHANGED <<variant, data, czml, transformer>>
    /\ UNCHANGED <<previous, call, ret>>

\* lines 199-216: one iteration of the pose loop
CreateDocumentPoseRow ==
    /\ variant = "geo"
    /\ pc = "pose"
    /\ i < Len(data)
    /\ LET row == data[i + 1]
       IN  IF create_czml_document_pose_raises(row, start_time)
           THEN /\ result' = "raised"
                /\ pc' = "crashed"
                /\ UNCHANGED <<position_list, orientation_list, i, log>>
           ELSE /\ IF create_czml_document_pose_complete(row)
                   THEN /\ position_list' =
                             Append(position_list,
                                    create_czml_document_position(row, i, start_time))
                        /\ orientation_list' =
                             Append(orientation_list,
                                    create_czml_document_orientation(row, i, start_time))
                        /\ log' = log \cup
                             (IF IsNone(Strptime(Val(row.Timestamp)))
                                 \/ IsNone(Strptime(Val(start_time)))
                              THEN {"Error parsing timestamps"} ELSE {})
                   ELSE UNCHANGED <<position_list, orientation_list, log>>
                /\ i' = i + 1
                /\ UNCHANGED <<result, pc>>
    /\ UNCHANGED <<variant, data, start_time, end_time, czml, transformer>>
    /\ UNCHANGED <<previous, call, ret>>

\* lines 218-256: None without samples, or the list with the primary entity
CreateDocumentEntity ==
    /\ variant = "geo"
    /\ pc = "pose"
    /\ i = Len(data)
    /\ IF position_list = <<>> \/ orientation_list = <<>>
       THEN /\ result' = "None"
            /\ pc' = "main"
            /\ log' = log \cup {"No valid position or orientation data found"}
            /\ UNCHANGED czml
       ELSE /\ czml' = <<DocumentPacket(start_time, end_time),
                         HerculesPacket(start_time, end_time, position_list, orientation_list)>>
            /\ pc' = "child"
            /\ UNCHANGED <<result, log>>
    /\ i' = 0
    /\ UNCHANGED <<variant, data, start_time, end_time, position_list,
                   orientation_list, transformer>>
    /\ UNCHANGED <<previous, call, ret>>

\* lines 259-345: one iteration of the sensor and event loop
CreateDocumentChildRow ==
    /\ variant = "geo"
    /\ pc = "child"
    /\ i < Len(data)
    /\ LET out == create_czml_document_children(data[i + 1], i)
       IN  IF out.raised
           THEN /\ result' = "raised"
                /\ pc' = "crashed"
                /\ UNCHANGED <<czml, i>>
           ELSE /\ czml' = czml \o out.packets
                /\ i' = i + 1
                /\ UNCHANGED <<result, pc>>
    /\ UNCHANGED <<variant, data, start_time, end_time, position_list,
                   orientation_list, transformer, log>>
    /\ UNCHANGED <<previous, call, ret>>

\* line 348: return Document(packets)
CreateDocumentReturn ==
    /\ variant = "geo"
    /\ pc = "child"
    /\ i = Len(data)
    /\ result' = "list"
    /\ pc' = "main"
    /\ UNCHANGED <<variant, data, i, start_time, end_time, position_list,
                   orientation_list, czml, transformer, log>>
    /\ UNCHANGED <<previous, call, ret>>

\* main, lines 383-391: no document fails the run, a document is written
CreateDocumentMain ==
    /\ variant = "geo"
    /\ pc = "main"
    /\ log' = log \cup (IF result = "None" THEN {"CZML generation failed"}
                        ELSE {"CZML file successfully created"})
    /\ pc' = "exit"
    /\ UNCHANGED <<variant, data, i, start_time, end_time, position_list,
                   orientation_list, czml, result, transformer>>
    /\ UNCHANGED <<previous, call, ret>>

----------------------------------------------------------------------------
(* The system: one conversion of one input by one of the converters         *)

\* no helper function is applied on its own
Idle == [fn |-> "none", args |-> <<>>]

Init ==
    /\ variant \in {"utm", "geo"}
    /\ data \in Inputs
    /\ pc = "start"
    /\ i = 0
    /\ start_time = None
    /\ end_time = None
    /\ position_list = <<>>
    /\ orientation_list = <<>>
    /\ czml = <<>>
    /\ result = "pending"
    /\ transformer = None
    /\ log = {}
    /\ previous = None
    /\ call = Idle
    /\ ret = None

Next ==
    \/ BuildCzmlStart
    \/ BuildCzmlPoseRow
    \/ BuildCzmlEntity
    \/ BuildCzmlChildRow
    \/ BuildCzmlReturn
    \/ BuildCzmlMain
    \/ CreateDocumentStart
    \/ CreateDocumentPoseRow
    \/ CreateDocumentEntity
    \/ CreateDocumentChildRow
    \/ CreateDocumentReturn
    \/ CreateDocumentMain

Spec == Init /\ [][Next]_vars

\* what a finished run hands to its caller
Output == [result |-> result, czml |-> IF result = "list" THEN czml ELSE <<>>]

\* the converter is called a second time on the same rows.  Nothing is reset
\* but the position in the program and the pending return value: whatever the
\* first call left behind is there for the second to find.
RunAgain ==
    /\ pc \in {"exit", "crashed"}
    /\ previous = None
    /\ previous' = Some(Output)
    /\ pc' = "start"
    /\ result' = "pending"
    /\ UNCHANGED <<variant, data, i, start_time, end_time, position_list,
                   orientation_list, czml, transformer, log, call, ret>>

RepeatNext ==
    \/ Next
    \/ RunAgain

RepeatSpec == Init /\ [][RepeatNext]_vars

----------------------------------------------------------------------------
(* The helper functions applied on their own: one call from the idle state, *)
(* its arguments drawn from the sets below, its result kept in ret.         *)

Headings == {Whole(90 * k) : k \in 0..MaxQuarterTurns} \cup {NaN}
RightAngles == {Whole(-90), Whole(0), Whole(90)}

\* rows as initialize_transformers reads them
AnchorRows ==
    [Latitude : {None, Some(-10), Some(0), Some(60)},
     Longitude : {None, Some(-122), Some(10)}]
AnchorInputs == UNION {[1..n -> AnchorRows] : n \in 0..MaxAnchors}

\* the rotation matrices with entries -1, 0, 1: the signed permutations of
\* determinant 1
Permutations3 == {f \in [1..3 -> 1..3] : \A a, b \in 1..3 : a # b => f[a] # f[b]}
Sign3(f) == IF f \in {<<1, 2, 3>>, <<2, 3, 1>>, <<3, 1, 2>>} THEN 1 ELSE -1
RotationMatrices ==
    {[r \in 1..3 |-> [c \in 1..3 |-> IF c = ps[1][r] THEN Whole(ps[2][r]) ELSE Whole(0)]] :
        ps \in {x \in Permutations3 \X [1..3 -> {-1, 1}] :
                  Sign3(x[1]) * x[2][1] * x[2][2] * x[2][3] = 1}}

\* diagonal matrices, rotations or not, with equal and unequal diagonal terms
DiagonalMatrices ==
    {[r \in 1..3 |-> [c \in 1..3 |-> IF c = r THEN Whole(d[r]) ELSE Whole(0)]] :
        d \in [1..3 -> -1..1]}

Quaternions == [1..4 -> {Whole(n) : n \in -MaxComponent..MaxComponent}]
UnitQuaternions ==
    {[k \in 1..4 |-> IF k = u[1] THEN Whole(u[2]) ELSE Whole(0)] :
        u \in (1..4) \X {-1, 1}}

CallGetUtmZone ==
    /\ call = Idle
    /\ \E lat \in -MaxLat..MaxLat, lon \in -MaxLon..MaxLon :
          /\ call' = [fn |-> "get_utm_zone", args |-> <<lat, lon>>]
          /\ ret' = get_utm_zone(lat, lon)
    /\ UNCHANGED <<variant, data, pc, i, start_time, end_time, position_list,
                   orientation_list, czml, result, transformer, log, previous>>

CallInitializeTransformers ==
    /\ call = Idle
    /\ \E rows \in AnchorInputs :
          /\ call' = [fn |-> "initialize_transformers", args |-> <<rows>>]
          /\ ret' = initialize_transformers(rows)
    /\ UNCHANGED <<variant, data, pc, i, start_time, end_time, position_list,
                   orientation_list, czml, result, transformer, log, previous>>

CallEnuToEcefMatrix ==
    /\ call = Idle
    /\ \E lon \in {-180, -90, 0, 90, 180}, lat \in {-90, 0, 90} :
          /\ call' = [fn |-> "enu_to_ecef_matrix", args |-> <<lon, lat>>]
          /\ ret' = enu_to_ecef_matrix_at(lon, lat)
    /\ UNCHANGED <<variant, data, pc, i, start_time, end_time, position_list,
                   orientation_list, czml, result, transformer, log, previous>>

CallMatrixToQuaternion ==
    /\ call = Idle
    /\ \E m \in RotationMatrices :
          /\ call' = [fn |-> "matrix_to_quaternion", args |-> <<m>>]
          /\ ret' = matrix_to_quaternion(m)
    /\ UNCHANGED <<variant, data, pc, i, start_time, end_time, position_list,
                   orientation_list, czml, result, transformer, log, previous>>

\* the branch decision of matrix_to_quaternion alone, on matrices whose
\* square root need not be exact
CallMatrixToQuaternionBranch ==
    /\ call = Idle
    /\ \E m \in DiagonalMatrices :
          /\ call' = [fn |-> "matrix_to_quaternion_branch", args |-> <<m>>]
          /\ ret' = matrix_to_quaternion_branch(m)
    /\ UNCHANGED <<variant, data, pc, i, start_time, end_time, position_list,
                   orientation_list, czml, result, transformer, log, previous>>

CallQuaternionMultiply ==
    /\ call = Idle
    /\ \E q1 \in Quaternions, q2 \in UnitQuaternions, left \in BOOLEAN :
          /\ call' = [fn |-> "quaternion_multiply",
                      args |-> IF left THEN <<q1, q2>> ELSE <<q2, q1>>]
          /\ ret' = IF left THEN quaternion_multiply(q1, q2)
                    ELSE quaternion_multiply(q2, q1)
    /\ UNCHANGED <<variant, data, pc, i, start_time, end_time, position_list,
                   orientation_list, czml, result, transformer, log, previous>>

CallEulerToQuaternion ==
    /\ call = Idle
    /\ \E heading \in Headings, pitch \in RightAngles, roll \in RightAngles :
          /\ call' = [fn |-> "euler_to_quaternion", args |-> <<heading, pitch, roll>>]
          /\ ret' = euler_to_quaternion(heading, pitch, roll)
    /\ UNCHANGED <<variant, data, pc, i, start_time, end_time, position_list,
                   orientation_list, czml, result, transformer, log, previous>>

CallHeadingToQuaternion ==
    /\ call = Idle
    /\ \E heading \in Headings :
          /\ call' = [fn |-> "heading_to_quaternion", args |-> <<heading>>]
          /\ ret' = heading_to_quaternion(heading)
    /\ UNCHANGED <<variant, data, pc, i, start_time, end_time, position_list,
                   orientation_list, czml, result, transformer, log, previous>>

\* rows with a complete position and the three angles, as the pose loop
\* hands them to the quaternion computation
PosesWithAttitude ==
    {pose \in TailPoses :
        ~IsNone(pose.Heading) /\ ~IsNone(pose.Pitch) /\ ~IsNone(pose.Roll)}

\* the quaternion computation of one row of the pose loop, below and from
\* LevelFlightRows on
CallBuildCzmlQGlobal ==
    /\ call = Idle
    /\ \E pose \in PosesWithAttitude, n \in {0, LevelFlightRows} :
          /\ call' = [fn |-> "build_czml_q_global", args |-> <<pose, n>>]
          /\ ret' = build_czml_q_global(pose, n, initialize_transformers(<<>>))
    /\ UNCHANGED <<variant, data, pc, i, start_time, end_time, position_list,
                   orientation_list, czml, result, transformer, log, previous>>

\* no converter runs
HelperInit ==
    /\ variant = "utm"
    /\ data = <<>>
    /\ pc = "exit"
    /\ i = 0
    /\ start_time = None
    /\ end_time = None
    /\ position_list = <<>>
    /\ orientation_list = <<>>
    /\ czml = <<>>
    /\ result = "pending"
    /\ transformer = None
    /\ log = {}
    /\ previous = None
    /\ call = Idle
    /\ ret = None

HelperNext ==
    \/ CallGetUtmZone
    \/ CallInitializeTransformers
    \/ CallEnuToEcefMatrix
    \/ CallMatrixToQuaternion
    \/ CallMatrixToQuaternionBranch
    \/ CallQuaternionMultiply
    \/ CallEulerToQuaternion
    \/ CallHeadingToQuaternion
    \/ CallBuildCzmlQGlobal

HelperSpec == HelperInit /\ [][HelperNext]_vars

----------------------------------------------------------------------------
(* Vocabulary of the claims, stated on the input and the output only        *)

ChildKinds == {"sensor", "event"}
Children == {k \in 1..Len(czml) : czml[k].kind \in ChildKinds}

\* the instant an optional timestamp string denotes, None when it denotes none
Instant(f) == IF Truthy(f) THEN Strptime(Val(f)) ELSE None

\* availability a lies within [lo, hi]; false when an end of a denotes no instant
AvailabilityWithin(a, lo, hi) ==
    /\ ~IsNone(Instant(a.start))
    /\ ~IsNone(Instant(a.stop))
    /\ lo <= Val(Instant(a.start))
    /\ Val(Instant(a.stop)) <= hi

\* the row's sensor-label condition: a timestamp, an index on the stride,
\* both sensor fields
SensorCondition(row, n) ==
    /\ Truthy(row.Timestamp)
    /\ n % 5 = 0
    /\ row.O2_Concentration # None
    /\ row.Temperature # None

\* the row's event-marker condition: a timestamp, a category that is not
\* blank, an image reference
EventCondition(row) ==
    /\ Truthy(row.Timestamp)
    /\ Truthy(row.event_value)
    /\ \E k \in 1..Len(Val(row.event_value)) : Val(row.event_value)[k] # " "
    /\ Truthy(row.filename_2_value)

HasPacket(kind, n) == \E k \in 1..Len(czml) : czml[k].kind = kind /\ czml[k].row = n

----------------------------------------------------------------------------
(* C1 *)

\* C1: every packet list is ordered: the document packet first, the primary
\* entity "Hercules" second, then the child packets in increasing row index;
\* the sensor label and the event marker of one row are adjacent, the label
\* first, and precede every child of a later row.
C1_PacketOrder ==
    /\ Len(czml) >= 1 => (czml[1].kind = "document" /\ czml[1].id = DocumentId)
    /\ Len(czml) >= 2 => (czml[2].kind = "entity" /\ czml[2].id = HerculesId)
    /\ \A k \in 3..Len(czml) :
          czml[k].kind \in ChildKinds /\ czml[k].row \in 0..(Len(data) - 1)
    /\ \A p, q \in 3..Len(czml) :
          p < q =>
            \/ czml[p].row < czml[q].row
            \/ /\ czml[p].row = czml[q].row
               /\ q = p + 1
               /\ czml[p].kind = "sensor"
               /\ czml[q].kind = "event"

\* a returned list in which one row gave a label and a marker and a later
\* row gave a further child
C1_Witness ==
    /\ result = "list"
    /\ \E p \in 3..Len(czml) :
          /\ p + 2 <= Len(czml)
          /\ czml[p].kind = "sensor"
          /\ czml[p + 1].kind = "event"
          /\ czml[p + 1].row = czml[p].row
          /\ czml[p + 2].row > czml[p].row

----------------------------------------------------------------------------
(* C2 *)

\* C2: the availability of every sensor-label or event-marker packet lies
\* within the availability of its parent "Hercules", [first row's timestamp,
\* last row's timestamp].
C2_ChildAvailabilityInParent ==
    \A k \in Children :
        /\ ~IsNone(Instant(Val(czml[2].availability).start))
        /\ ~IsNone(Instant(Val(czml[2].availability).stop))
        /\ AvailabilityWithin(Val(czml[k].availability),
                              Val(Instant(Val(czml[2].availability).start)),
                              Val(Instant(Val(czml[2].availability).stop)))

----------------------------------------------------------------------------
(* C3 *)

\* C3 as claimed: no two packets of a list carry the same id.
C3_AllIdsDistinct ==
    \A p, q \in 1..Len(czml) : p # q => czml[p].id # czml[q].id

\* C3 as amended: two packets of a list carry the same id only when both are
\* event markers of rows with the same category whose timestamps read the
\* same once ":" and "-" are removed (equal timestamps in particular).
C3_IdsDistinctButEvents ==
    \A p, q \in 1..Len(czml) :
        (p # q /\ czml[p].id = czml[q].id) =>
            /\ czml[p].kind = "event"
            /\ czml[q].kind = "event"
            /\ Strip(Val(data[czml[p].row + 1].event_value))
                 = Strip(Val(data[czml[q].row + 1].event_value))
            /\ SelectSeq(Val(data[czml[p].row + 1].Timestamp), LAMBDA c : c \notin {":", "-"})
                 = SelectSeq(Val(data[czml[q].row + 1].Timestamp), LAMBDA c : c \notin {":", "-"})

\* a returned list with a sensor label, an event marker, and two packets that
\* share their id
C3_Witness ==
    /\ result = "list"
    /\ \E p, q \in Children : p # q /\ czml[p].id = czml[q].id
    /\ \E p, q \in Children : czml[p].kind = "sensor" /\ czml[q].kind = "event"

----------------------------------------------------------------------------
(* C4 *)

\* the row lacks a mandatory pose field: a position component, or the heading
\* for create_czml_document
MissingPoseField(row) ==
    IF variant = "utm"
    THEN row.UTM_X = None \/ row.UTM_Y = None \/ row.Depth = None
    ELSE row.Longitude = None \/ row.Latitude = None \/ row.Depth = None
         \/ row.Heading = None

\* no position or orientation sample comes from a row that lacks a pose field
NoSampleOfMissingPose ==
    /\ \A k \in 1..Len(position_list) : ~MissingPoseField(data[position_list[k].row + 1])
    /\ \A k \in 1..Len(orientation_list) :
          ~MissingPoseField(data[orientation_list[k].row + 1])

\* the children of the rows that lack a pose field are in the list
ChildrenOfMissingPosePresent ==
    \A n \in 0..(Len(data) - 1) :
        MissingPoseField(data[n + 1]) =>
            /\ SensorCondition(data[n + 1], n) => HasPacket("sensor", n)
            /\ EventCondition(data[n + 1]) => HasPacket("event", n)

----------------------------------------------------------------------------
(* C5 *)

\* C5: an empty input ends in a document-only result: a list of exactly one
\* packet, the document packet.
C5_EmptyInputDocumentOnly ==
    (data = <<>> /\ pc = "exit") =>
        /\ result = "list"
        /\ Len(czml) = 1
        /\ czml[1].id = DocumentId

----------------------------------------------------------------------------
(* C6 *)

\* the input has a row whose timestamp is present and does not parse, and
\* no row without a timestamp
UnparsableTimestampOnly ==
    /\ \A k \in 1..Len(data) : data[k].Timestamp # None
    /\ \E k \in 1..Len(data) : IsNone(Strptime(Val(data[k].Timestamp)))

\* C6: a row whose timestamp is present but unparsable does not interrupt the
\* batch: the conversion never ends in an exception.
C6_UnparsableTimestampCompletes ==
    UnparsableTimestampOnly => result # "raised"

----------------------------------------------------------------------------
(* C7 *)

\* the rows the sensor and event loop has gone through
ChildRowsDone ==
    IF Len(czml) < 2 THEN 0
    ELSE IF result = "list" THEN Len(data)
    ELSE i

\* the number of sensor-label packets of the list
SensorPackets == Cardinality({k \in 1..Len(czml) : czml[k].kind = "sensor"})

\* rows 5 and 10 lack a sensor field, every other row on the stride has both
FixtureFiveAndTen ==
    /\ Len(data) \in 11..15
    /\ \A n \in {0, 5, 10} :
          /\ Truthy(data[n + 1].Timestamp)
          /\ data[n + 1].O2_Concentration # None
          /\ (data[n + 1].Temperature = None) = (n # 0)

----------------------------------------------------------------------------
(* C8 *)

\* the row names a category, blank or not, but gives no event marker
CategoryWithoutEvent(row) == row.event_value # None /\ ~EventCondition(row)

----------------------------------------------------------------------------
(* C9 *)

\* the timestamp is in the fixed-width form YYYY-MM-DDTHH:MM:SSZ of an instant
WellFormed(timestamp) ==
    /\ ~IsNone(Strptime(timestamp))
    /\ Strftime(Val(Strptime(timestamp))) = timestamp

\* the pairs of event markers of the list whose rows have the same category
SameCategoryEvents ==
    {p \in Children \X Children :
        /\ czml[p[1]].kind = "event"
        /\ czml[p[2]].kind = "event"
        /\ data[czml[p[1]].row + 1].event_value = data[czml[p[2]].row + 1].event_value}

\* the timestamp of the row of packet k
StampOf(k) == Val(data[czml[k].row + 1].Timestamp)

\* C9: the id of an event marker is a function of category and timestamp only:
\* two event rows of one category with the same timestamp get the same id, and
\* two with different well-formed timestamps get different ids.
C9_EventIdByCategoryAndTime ==
    \A p \in SameCategoryEvents :
        /\ StampOf(p[1]) = StampOf(p[2]) => czml[p[1]].id = czml[p[2]].id
        /\ (/\ StampOf(p[1]) # StampOf(p[2])
            /\ WellFormed(StampOf(p[1]))
            /\ WellFormed(StampOf(p[2]))) => czml[p[1]].id # czml[p[2]].id

\* a returned list with two event markers of one category at different
\* well-formed timestamps, under different ids
C9_Witness ==
    /\ result = "list"
    /\ \E p \in SameCategoryEvents :
          /\ StampOf(p[1]) # StampOf(p[2])
          /\ WellFormed(StampOf(p[1]))
          /\ WellFormed(StampOf(p[2]))
          /\ czml[p[1]].id # czml[p[2]].id

----------------------------------------------------------------------------
(* C10 *)

\* the first and the last row's timestamps
SeriesStart == IF data = <<>> THEN None ELSE Instant(data[1].Timestamp)
SeriesEnd == IF data = <<>> THEN None ELSE Instant(data[Len(data)].Timestamp)

\* every child's availability lies within [series start, series end + 2 s]
ChildrenWithinSeries ==
    Children # {} =>
        LET lo == SeriesStart
            hi == SeriesEnd
        IN  /\ ~IsNone(lo)
            /\ ~IsNone(hi)
            /\ \A k \in Children :
                  AvailabilityWithin(Val(czml[k].availability), Val(lo), Val(hi) + 2)

\* the first and the last row's timestamps parse and bound those of all rows
TimeBounded ==
    LET lo == SeriesStart
        hi == SeriesEnd
    IN  /\ ~IsNone(lo)
        /\ ~IsNone(hi)
        /\ \A k \in 1..Len(data) :
              LET t == Instant(data[k].Timestamp)
              IN  ~IsNone(t) => (Val(lo) <= Val(t) /\ Val(t) <= Val(hi))

\* C10 as claimed: every child packet's availability lies within
\* [series start, series end + 2 s], the series start and end being the first
\* and the last row's timestamps.
C10_ChildWithinSeries == ChildrenWithinSeries

\* C10 as amended: when the first and the last row's timestamps parse and no
\* row's timestamp lies before the first or after the last, every child
\* packet's availability lies within [series start, series end + 2 s].
C10_ChildWithinOrderedSeries == ChildrenWithinSeries \/ ~TimeBounded

\* a returned list for two rows at different times whose last row has a child
\* that ends 2 s after the series end
C10_Witness ==
    /\ result = "list"
    /\ Len(data) = 2
    /\ TimeBounded
    /\ Val(SeriesStart) < Val(SeriesEnd)
    /\ \E k \in Children :
          /\ czml[k].row = 1
          /\ Instant(Val(czml[k].availability).stop) = Some(Val(SeriesEnd) + 2)

----------------------------------------------------------------------------
(* C11 *)

\* C11: heading 0 and heading 360 give the same quaternion, component for
\* component, in both heading-to-quaternion paths: euler_to_quaternion with
\* equal pitch and roll, and heading_to_quaternion.
C11_FullTurnSameQuaternion ==
    /\ (call.fn = "euler_to_quaternion" /\ call.args[1] = Whole(360)) =>
          ret = euler_to_quaternion(Whole(0), call.args[2], call.args[3])
    /\ (call.fn = "heading_to_quaternion" /\ call.args[1] = Whole(360)) =>
          ret = heading_to_quaternion(Whole(0))

----------------------------------------------------------------------------
(* C12 *)

\* the zone the claim names for a latitude and a longitude
ClaimedZone(lat, lon) ==
    CASE lat \in 56..63 /\ lon \in 3..11 -> 32
      [] lat \in 72..83 /\ lon \in 0..8 -> 31
      [] lat \in 72..83 /\ lon \in 9..20 -> 33
      [] lat \in 72..83 /\ lon \in 21..32 -> 35
      [] lat \in 72..83 /\ lon \in 33..41 -> 37
      [] OTHER -> ((lon + 180) \div 6) + 1

\* C12: get_utm_zone gives 32 for 56 <= lat < 64 and 3 <= lon < 12; in the
\* band 72 <= lat < 84 the zones 31, 33, 35, 37 for lon in [0, 9), [9, 21),
\* [21, 33), [33, 42); otherwise floor((lon + 180) / 6) + 1.  So
\* (lon 10, lat 60) gives 32, (lon 15, lat 76) gives 33 and (lon -122, lat 37)
\* gives 10.
C12_UtmZoneSelection ==
    call.fn = "get_utm_zone" =>
        /\ ret = ClaimedZone(call.args[1], call.args[2])
        /\ call.args = <<60, 10>> => ret = 32
        /\ call.args = <<76, 15>> => ret = 33
        /\ call.args = <<37, -122>> => ret = 10

\* get_utm_zone applied in the zone 32 exception, west of the plain zone 32
C12_Witness ==
    /\ call.fn = "get_utm_zone"
    /\ call.args = <<60, 4>>
    /\ ret = 32

----------------------------------------------------------------------------
(* C13 *)

\* row k of rows has a latitude and a longitude
HasAnchor(rows, k) == rows[k].Latitude # None /\ rows[k].Longitude # None

----------------------------------------------------------------------------
(* C14 *)

\* the primary entity of a returned list
EntityReturned == result = "list" /\ Len(czml) >= 2

\* the entity has an orientation array exactly when an orientation sample was
\* computed
OrientationWhenComputed ==
    EntityReturned => (czml[2].body.orientation # None <=> orientation_list # <<>>)

\* the position array and the orientation array have the first row's
\* timestamp as epoch
SharedEpoch ==
    EntityReturned =>
        /\ czml[2].body.position.epoch = data[1].Timestamp
        /\ czml[2].body.orientation # None =>
              czml[2].body.orientation[1].epoch = data[1].Timestamp

\* the sample's offset is the time from the first row's timestamp to the
\* timestamp of the sample's row
MeasuredFromEpoch(sample) ==
    LET epoch == Instant(data[1].Timestamp)
        time == Instant(data[sample.row + 1].Timestamp)
    IN  /\ ~IsNone(epoch)
        /\ ~IsNone(time)
        /\ sample.offset = Val(time) - Val(epoch)

\* the samples of an array of the entity
SamplesOf(array) == {array.samples[k] : k \in 1..Len(array.samples)}

\* C14: the primary entity carries an orientation array exactly when at least
\* one orientation sample was computed; its position and orientation arrays
\* have the same epoch, the first row's timestamp; and every time offset in
\* both arrays is measured from that epoch.
C14_ArraysShareEpoch ==
    /\ OrientationWhenComputed
    /\ SharedEpoch
    /\ EntityReturned =>
          /\ \A sample \in SamplesOf(czml[2].body.position) : MeasuredFromEpoch(sample)
          /\ czml[2].body.orientation # None =>
                \A sample \in SamplesOf(czml[2].body.orientation[1]) :
                    MeasuredFromEpoch(sample)

----------------------------------------------------------------------------
(* C15 *)

\* C15: a second run on the same rows returns what the first run returned,
\* packet for packet and field for field: the same kind of result and the
\* same packet list.
C15_SecondRunSameOutput ==
    (previous # None /\ pc \in {"exit", "crashed"}) => Output = previous[1]

\* a second run that returned a list with the primary entity and a child
C15_Witness ==
    /\ previous # None
    /\ pc = "exit"
    /\ result = "list"
    /\ Len(czml) >= 3
    /\ previous[1].czml = czml

----------------------------------------------------------------------------
(* C16 *)

\* the square of a quaternion's magnitude
MagnitudeSquared(q) ==
    FAdd(FAdd(FAdd(FMul(q[1], q[1]), FMul(q[2], q[2])), FMul(q[3], q[3])),
         FMul(q[4], q[4]))

\* the heading cell of the sample's row holds "nan"
HeadingNotANumber(sample) ==
    LET heading == data[sample.row + 1].Heading
    IN  ~IsNone(heading) /\ IsNaN(Val(heading))

\* the quaternions computed from numbers have magnitude 1: the converters
\* multiply unit quaternions and nothing else
UnitMagnitudeOfNumbers ==
    \A k \in 1..Len(orientation_list) :
        \/ HeadingNotANumber(orientation_list[k])
        \/ MagnitudeSquared(orientation_list[k].q) = Whole(1)

\* C16: every quaternion written to the orientation array has magnitude 1,
\* for every row for which a pose is computed.
C16_UnitMagnitude ==
    \A k \in 1..Len(orientation_list) :
        MagnitudeSquared(orientation_list[k].q) = Whole(1)

----------------------------------------------------------------------------
(* C17 *)

\* build_czml has gone through every row of the pose loop
PoseLoopDone == variant = "utm" /\ pc \in {"child", "main", "exit"}

\* row n (from 0) is past the level-flight rows and has a complete position
\* and a heading
PosedWithHeading(n) ==
    /\ n >= LevelFlightRows
    /\ build_czml_pose_complete(data[n + 1])
    /\ ~IsNone(data[n + 1].Heading)

\* the orientation samples of row n
SamplesOfRow(n) == {k \in 1..Len(orientation_list) : orientation_list[k].row = n}

\* with values in the pitch and roll cells the row has exactly one sample
OneSampleWithPitchAndRoll ==
    PoseLoopDone =>
        \A n \in 0..(Len(data) - 1) :
            (/\ PosedWithHeading(n)
             /\ ~IsNone(data[n + 1].Pitch)
             /\ ~IsNone(data[n + 1].Roll)) => Cardinality(SamplesOfRow(n)) = 1

\* C17: in build_czml a row at index >= 20 with a complete position and a
\* heading gets exactly one orientation sample, whether or not its pitch and
\* roll carry values.
C17_PitchRollOptional ==
    PoseLoopDone =>
        \A n \in 0..(Len(data) - 1) :
            PosedWithHeading(n) => Cardinality(SamplesOfRow(n)) = 1

----------------------------------------------------------------------------
(* C18 *)

\* the unit vectors of the local tangent frame at a longitude and latitude,
\* in global coordinates
EastVector(lon, lat) == <<FNeg(FSinDeg(lon)), FCosDeg(lon), Whole(0)>>
NorthVector(lon, lat) ==
    <<FNeg(FMul(FSinDeg(lat), FCosDeg(lon))), FNeg(FMul(FSinDeg(lat), FSinDeg(lon))),
      FCosDeg(lat)>>
UpVector(lon, lat) ==
    <<FMul(FCosDeg(lat), FCosDeg(lon)), FMul(FCosDeg(lat), FSinDeg(lon)), FSinDeg(lat)>>

DotProduct(u, v) ==
    FAdd(FAdd(FMul(u[1], v[1]), FMul(u[2], v[2])), FMul(u[3], v[3]))

\* three vectors of length 1, each perpendicular to the other two
Orthonormal(m) ==
    \A a, b \in 1..3 : DotProduct(m[a], m[b]) = IF a = b THEN Whole(1) ELSE Whole(0)

EnuToEcefMatrixReturned == call.fn = "enu_to_ecef_matrix"

\* the three returned vectors are orthonormal
ReturnedVectorsOrthonormal == EnuToEcefMatrixReturned => Orthonormal(ret)

\* the returned vectors are the rows of the matrix whose columns are east,
\* north and up: the k-th one holds the k-th global coordinate of each
ReturnedVectorsAreRows ==
    EnuToEcefMatrixReturned =>
        LET lon == call.args[1]
            lat == call.args[2]
            frame == <<EastVector(lon, lat), NorthVector(lon, lat), UpVector(lon, lat)>>
        IN  \A a, b \in 1..3 : ret[a][b] = frame[b][a]

\* C18: enu_to_ecef_matrix returns the east, north and up unit vectors of the
\* tangent frame, in that order, each in global coordinates, and the three
\* are mutually orthonormal.
C18_EastNorthUpVectors ==
    EnuToEcefMatrixReturned =>
        LET lon == call.args[1]
            lat == call.args[2]
        IN  /\ ret[1] = EastVector(lon, lat)
            /\ ret[2] = NorthVector(lon, lat)
            /\ ret[3] = UpVector(lon, lat)
            /\ Orthonormal(ret)

----------------------------------------------------------------------------
(* C19 *)

\* the Hamilton product of two quaternions [x, y, z, w], from its definition
\* on scalar and vector parts:
\*   (w1, v1)(w2, v2) = (w1 w2 - v1 . v2,  w1 v2 + w2 v1 + v1 x v2)
VectorPart(q) == <<q[1], q[2], q[3]>>
CrossProduct(u, v) ==
    <<FSub(FMul(u[2], v[3]), FMul(u[3], v[2])),
      FSub(FMul(u[3], v[1]), FMul(u[1], v[3])),
      FSub(FMul(u[1], v[2]), FMul(u[2], v[1]))>>
HamiltonProduct(p, q) ==
    LET cross == CrossProduct(VectorPart(p), VectorPart(q))
        v == [k \in 1..3 |-> FAdd(FAdd(FMul(p[4], q[k]), FMul(q[4], p[k])), cross[k])]
    IN  <<v[1], v[2], v[3],
          FSub(FMul(p[4], q[4]), DotProduct(VectorPart(p), VectorPart(q)))>>

IdentityQuaternion == <<Whole(0), Whole(0), Whole(0), Whole(1)>>

\* the frame quaternion and the local quaternion of a row at index n
FrameQuaternion(row) ==
    matrix_to_quaternion(enu_to_ecef_matrix(Val(row.UTM_X), Val(row.UTM_Y),
                                            initialize_transformers(<<>>)))
LocalQuaternion(row, n) ==
    IF n < LevelFlightRows THEN IdentityQuaternion
    ELSE euler_to_quaternion(Val(row.Heading), Val(row.Pitch), Val(row.Roll))

\* quaternion_multiply returns the Hamilton product of its arguments
MultiplyIsHamilton ==
    call.fn = "quaternion_multiply" =>
        ret = HamiltonProduct(call.args[1], call.args[2])

\* the identity is neutral on both sides
IdentityNeutral ==
    call.fn = "quaternion_multiply" =>
        /\ call.args[1] = IdentityQuaternion => ret = call.args[2]
        /\ call.args[2] = IdentityQuaternion => ret = call.args[1]

\* the global quaternion of a row is frame * local, the model correction
\* leaving the local quaternion as it is
GlobalIsFrameTimesLocal ==
    call.fn = "build_czml_q_global" =>
        ret = HamiltonProduct(FrameQuaternion(call.args[1]),
                              LocalQuaternion(call.args[1], call.args[2]))

\* C19: the global orientation is the Hamilton product frame * local with the
\* frame on the left; quaternion_multiply agrees with the Hamilton product on
\* [x, y, z, w]; the identity [0, 0, 0, 1] is neutral on both sides, so the
\* identity model correction leaves the local quaternion unchanged.
C19_HamiltonFrameLeft ==
    /\ MultiplyIsHamilton
    /\ IdentityNeutral
    /\ GlobalIsFrameTimesLocal

\* a row whose frame and local quaternions do not commute, composed
C19_Witness ==
    /\ call.fn = "build_czml_q_global"
    /\ call.args[2] >= LevelFlightRows
    /\ ret = HamiltonProduct(FrameQuaternion(call.args[1]),
                             LocalQuaternion(call.args[1], call.args[2]))
    /\ ret # HamiltonProduct(LocalQuaternion(call.args[1], call.args[2]),
                             FrameQuaternion(call.args[1]))

----------------------------------------------------------------------------
(* C20 *)

\* the matrices of the calls have whole-number entries
Entry(m, r, c) == m[r][c][1]
Trace(m) == Entry(m, 1, 1) + Entry(m, 2, 2) + Entry(m, 3, 3)

\* the branches the rule allows: the first for a positive trace, otherwise
\* the branch of a diagonal term that no other diagonal term exceeds
AllowedBranches(m) ==
    IF Trace(m) > 0 THEN {1}
    ELSE {k + 1 : k \in {d \in 1..3 : \A e \in 1..3 : Entry(m, d, d) >= Entry(m, e, e)}}

\* the branch taken is one of 1 to 4 and an allowed one
BranchByLargestDiagonal ==
    call.fn = "matrix_to_quaternion_branch" =>
        /\ ret \in 1..4
        /\ ret \in AllowedBranches(call.args[1])

\* for a rotation matrix the radicand of the branch taken is at least 1, the
\* divisor s = 2 * sqrt(radicand) is positive and a quaternion is returned
DivisorPositive ==
    call.fn = "matrix_to_quaternion" =>
        LET m == call.args[1]
            radicand == matrix_to_quaternion_radicand(m)
        IN  /\ matrix_to_quaternion_branch(m) \in AllowedBranches(m)
            /\ ~FPositive(FSub(Whole(1), radicand))
            /\ FPositive(FMul(FSqrt(radicand), Whole(2)))
            /\ ret # Raised

\* C20: matrix_to_quaternion takes exactly one of its four branches for every
\* matrix (trace > 0, else the branch of the largest diagonal term, ties
\* included), and for every rotation matrix the radicand of the branch taken
\* is at least 1, so the divisor s is positive and nothing divides by zero.
C20_BranchAndDivisor ==
    /\ BranchByLargestDiagonal
    /\ DivisorPositive

\* a rotation matrix with trace 0 and three equal diagonal terms, converted:
\* the last branch, its radicand exactly 1
C20_Witness ==
    /\ call.fn = "matrix_to_quaternion"
    /\ Trace(call.args[1]) = 0
    /\ Entry(call.args[1], 1, 1) = Entry(call.args[1], 2, 2)
    /\ Entry(call.args[1], 2, 2) = Entry(call.args[1], 3, 3)
    /\ matrix_to_quaternion_branch(call.args[1]) = 4
    /\ matrix_to_quaternion_radicand(call.args[1]) = Whole(1)
    /\ ret # Raised

----------------------------------------------------------------------------
(* C21 *)

\* get_utm_zone was applied to a latitude in [-90, 90] and a longitude in
\* [-180, 180]
ZoneOfEarthPoint ==
    /\ call.fn = "get_utm_zone"
    /\ call.args[1] >= -90 /\ call.args[1] <= 90
    /\ call.args[2] >= -180 /\ call.args[2] <= 180

\* west of the antimeridian the zone is one of 1..60
ZoneValidBelowAntimeridian ==
    (ZoneOfEarthPoint /\ call.args[2] < 180) => ret \in 1..60

\* C21: get_utm_zone returns a zone number of the 6-degree banding, an integer
\* in 1..60, for every latitude in [-90, 90] and every longitude in [-180, 180].
C21_ZoneNumberValid ==
    ZoneOfEarthPoint => ret \in 1..60

----------------------------------------------------------------------------
(* C22 *)

\* the row has a complete position: its four keys hold a value (an empty
\* timestamp cell is a value)
PositionComplete(row) ==
    /\ row.Timestamp # None
    /\ row.UTM_X # None
    /\ row.UTM_Y # None
    /\ row.Depth # None

\* a non-empty input of build_czml in which no row has a complete position
NoRowPositioned ==
    /\ variant = "utm"
    /\ data # <<>>
    /\ \A k \in 1..Len(data) : ~PositionComplete(data[k])

\* the call has ended, with a value or an exception
CallEnded == pc \in {"main", "exit", "crashed"}

\* every child packet of a returned list names the parent "Hercules", and a
\* packet with that id is in the list
ChildrenHaveParent ==
    (CallEnded /\ result = "list") =>
        \A k \in Children :
            /\ czml[k].parent = Some(HerculesId)
            /\ \E j \in 1..Len(czml) : czml[j].id = HerculesId

\* C22: on a non-empty input without any complete position build_czml
\* returns exactly the document packet, whatever sensor or event data the
\* rows carry; hence every child packet of a returned list has its parent
\* "Hercules" in the same list.
C22_DocumentOnlyWithoutPosition ==
    /\ (NoRowPositioned /\ CallEnded) =>
          /\ result = "list"
          /\ Len(czml) = 1
          /\ czml[1].kind = "document"
    /\ ChildrenHaveParent

\* a returned document-only list for rows that carry sensor or event data
C22_Witness ==
    /\ NoRowPositioned
    /\ pc = "exit"
    /\ result = "list"
    /\ Len(czml) = 1
    /\ \E n \in 0..(Len(data) - 1) :
          SensorCondition(data[n + 1], n) \/ EventCondition(data[n + 1])

----------------------------------------------------------------------------
(* C23 *)

\* the number of rows the pose loop of build_czml has gone through
PoseRowsDone ==
    IF variant # "utm" THEN 0
    ELSE IF pc = "pose" THEN i
    ELSE IF PoseLoopDone THEN Len(data)
    ELSE 0

\* the orientation sample of row n written from the row's timestamp and
\* position alone: the offset from the first row's timestamp and the
\* tangent-frame quaternion.  Heading, pitch and roll do not occur in it.
LevelSample(n) ==
    [row |-> n,
     offset |-> seconds_between(data[1].Timestamp, data[n + 1].Timestamp),
     q |-> FrameQuaternion(data[n + 1])]

\* C23: every row at index < 20 with a complete position has exactly one
\* orientation sample, the tangent-frame quaternion at its position, whatever
\* its heading, pitch and roll are and also when the heading is absent.  The
\* sample is a function of the row's timestamp and position, so two inputs
\* that differ only in the angles of rows 0..19 have the same samples there.
C23_LevelFlightBelowTwenty ==
    \A n \in 0..(PoseRowsDone - 1) :
        (n < 20 /\ PositionComplete(data[n + 1])) =>
            /\ Cardinality(SamplesOfRow(n)) = 1
            /\ \A k \in SamplesOfRow(n) : orientation_list[k] = LevelSample(n)

\* the row's angles turn the vehicle away from level flight north
TurnedRow(row) ==
    /\ PositionComplete(row)
    /\ ~IsNone(row.Heading) /\ ~IsNone(row.Pitch) /\ ~IsNone(row.Roll)
    /\ ~IsNaN(Val(row.Heading))
    /\ euler_to_quaternion(Val(row.Heading), Val(row.Pitch), Val(row.Roll))
           # IdentityQuaternion

\* a turned row below index 20 with its level sample
C23_Witness ==
    /\ variant = "utm"
    /\ PoseLoopDone
    /\ \E n \in 0..(Len(data) - 1) :
          /\ n < 20
          /\ TurnedRow(data[n + 1])
          /\ \E k \in SamplesOfRow(n) : orientation_list[k].q = FrameQuaternion(data[n + 1])

====
